---- MODULE Spec2Model ----
(***************************************************************************)
(* Model of the vvo client library (src/vvo): the time decoder, the point  *)
(* parser, the departure / route / point response constructors and the     *)
(* request envelope.                                                       *)
(*                                                                         *)
(* Strings the code parses (time strings, point records) are sequences of  *)
(* one-character strings; strings the code only stores or compares are     *)
(* TLA+ strings.  Instants are integers: milliseconds on the local         *)
(* wall clock of a UTC host (datetime.fromtimestamp(s) with s in seconds). *)
(* A call that raises is the record [kind |-> "raised", exc |-> <type>].   *)
(***************************************************************************)
EXTENDS Integers, Sequences, FiniteSets, TLC

VARIABLES
    call,       \* the last operation invoked, with its arguments
    ret,        \* what that operation returned or raised
    sent,       \* the requests the transport has received during that call
    responses,  \* the PointResponse objects the caller holds, oldest first
    heap        \* the list objects those responses' points refer to

vars == <<call, ret, sent, responses, heap>>

----------------------------------------------------------------------------
(* Bounds of the model *)

MaxOffsetHours == 2
MaxDepartures == 3
MaxLimit == 3
MaxStops == 2
MaxRoutes == 2
MaxResponses == 2
MaxAppends == 2

----------------------------------------------------------------------------
(* Python values.  An operator that needs a computed value more than once  *)
(* takes it as a parameter of a second operator, as the code binds it to a *)
(* local variable.                                                         *)

None == [kind |-> "None"]

Raised(exc) == [kind |-> "raised", exc |-> exc]

IsRaised(r) == r.kind = "raised"

Str(s) == [kind |-> "str", val |-> s]

PyInt(n) == [kind |-> "int", val |-> n]

SeqMin(S) == CHOOSE m \in S : \A n \in S : m <= n

DigitChars == <<"0", "1", "2", "3", "4", "5", "6", "7", "8", "9">>

IsDigit(c) == \E d \in 1..Len(DigitChars) : DigitChars[d] = c

DigitVal(c) == (CHOOSE d \in 1..Len(DigitChars) : DigitChars[d] = c) - 1

AllDigits(s) == \A k \in 1..Len(s) : IsDigit(s[k])

\* the decimal value of a sequence of digit characters
RECURSIVE DigitsValue(_)
DigitsValue(s) ==
    IF s = <<>> THEN 0
    ELSE DigitsValue(SubSeq(s, 1, Len(s) - 1)) * Len(DigitChars) + DigitVal(s[Len(s)])

\* str.isnumeric(), had it been called
isnumeric(s) == s # <<>> /\ AllDigits(s)

\* int(s) on a str: an optional sign and decimal digits, ValueError otherwise
int(s) ==
    LET signed == s # <<>> /\ s[1] \in {"-", "+"}
        digits == IF signed THEN Tail(s) ELSE s
        sign == IF signed /\ s[1] = "-" THEN 0 - 1 ELSE 1
    IN  IF digits # <<>> /\ AllDigits(digits) THEN PyInt(sign * DigitsValue(digits))
        ELSE Raised("ValueError")

\* str(n) for n >= 0
RECURSIVE str(_)
str(n) ==
    IF n < Len(DigitChars) THEN <<DigitChars[n + 1]>>
    ELSE str(n \div Len(DigitChars)) \o <<DigitChars[(n % Len(DigitChars)) + 1]>>

\* s.split(sep) for a one-character separator
RECURSIVE split(_, _)
split(s, sep) ==
    IF \A k \in 1..Len(s) : s[k] # sep THEN <<s>>
    ELSE LET k == SeqMin({j \in 1..Len(s) : s[j] = sep})
         IN  <<SubSeq(s, 1, k - 1)>> \o split(SubSeq(s, k + 1, Len(s)), sep)

\* sep.join(parts)
RECURSIVE join(_, _)
join(parts, sep) ==
    IF parts = <<>> THEN <<>>
    ELSE IF Len(parts) = 1 THEN parts[1]
    ELSE parts[1] \o <<sep>> \o join(Tail(parts), sep)

\* [f(d) for d in items], given the f(d): the list, or the first exception
ListOrRaise(results) ==
    IF \E k \in 1..Len(results) : IsRaised(results[k])
    THEN results[SeqMin({k \in 1..Len(results) : IsRaised(results[k])})]
    ELSE [kind |-> "list", items |-> results]

Has(d, key) == key \in DOMAIN d

\* d.get(key, None)
Get(d, key) == IF Has(d, key) THEN d[key] ELSE None

----------------------------------------------------------------------------
(* base.py: _parse_time *)

MillisPerSecond == 1000
SecondsPerMinute == 60
OffsetDigits == 4

DatePrefix == <<"D", "a", "t", "e", "(">>

\* the end of the run of digits that starts at position i of s (i - 1 when
\* s[i] is no digit)
RECURSIVE DigitRunEnd(_, _)
DigitRunEnd(s, i) ==
    IF i <= Len(s) /\ IsDigit(s[i]) THEN DigitRunEnd(s, i + 1) ELSE i - 1

\* ([-]\d{4})\) after the digits s[d..e]
OffsetMatchesAfter(s, d, e) ==
    /\ e >= d
    /\ e + OffsetDigits + 2 <= Len(s)
    /\ s[e + 1] = "-"
    /\ AllDigits(SubSeq(s, e + 2, e + 1 + OffsetDigits))
    /\ s[e + OffsetDigits + 2] = ")"

\* whether Date\((\d+)+?([-]\d{4})\) matches s at position i
PatternMatchesAt(s, i) ==
    /\ i + Len(DatePrefix) - 1 <= Len(s)
    /\ SubSeq(s, i, i + Len(DatePrefix) - 1) = DatePrefix
    /\ OffsetMatchesAfter(s, i + Len(DatePrefix), DigitRunEnd(s, i + Len(DatePrefix)))

\* res.group(1, 2) of the match whose digits are s[d..e]
Groups(s, d, e) ==
    [kind |-> "match", ts |-> SubSeq(s, d, e), tz |-> SubSeq(s, e + 1, e + 1 + OffsetDigits)]

\* the leftmost match among the positions hits, or None
FirstMatch(s, hits) ==
    IF hits = {} THEN None
    ELSE Groups(s, SeqMin(hits) + Len(DatePrefix),
                DigitRunEnd(s, SeqMin(hits) + Len(DatePrefix)))

\* pattern.search(time)
PatternSearch(s) == FirstMatch(s, {i \in 1..Len(s) : PatternMatchesAt(s, i)})

\* datetime.fromtimestamp(int(ts) / 1000 + int(tz) * 60), or ValueError
TimeOfMatch(res) ==
    IF res.kind = "None" THEN Raised("ValueError")
    ELSE [kind |-> "datetime",
          ms |-> int(res.ts).val + int(res.tz).val * SecondsPerMinute * MillisPerSecond]

_parse_time(time) == TimeOfMatch(PatternSearch(time))

----------------------------------------------------------------------------
(* api_stops.py: Point *)

PointFieldCount == 9

\* `self.id.isnumeric` names the bound method and does not call it: a method
\* object is true whatever the identifier holds
BoundMethodTruth(s) == TRUE

\* Point.is_stop on an object whose id is idv and whose type is type
is_stop_of(idv, type) ==
    type = <<>> /\ (idv.kind = "int" \/ (idv.kind = "str" /\ BoundMethodTruth(idv.val)))

is_stop(self) == is_stop_of(self.id, self.type)

is_coord(self) == self.type = <<"c">>

\* lines 20-25: the conversions, in the order the code makes them
PointOfValues(data, f, id, distance, gk4_right, gk4_up) ==
    IF IsRaised(id) THEN id
    ELSE IF IsRaised(distance) THEN distance
    ELSE IF IsRaised(gk4_right) THEN gk4_right
    ELSE IF IsRaised(gk4_up) THEN gk4_up
    ELSE [kind |-> "Point", data |-> data, id |-> id, type |-> f[2],
          place |-> f[3], name |-> f[4], gk4_right |-> gk4_right.val,
          gk4_up |-> gk4_up.val, distance |-> distance, shortcut |-> f[9]]

\* lines 9-19: the nine fields
PointOfFields(data, f) ==
    IF Len(f) # PointFieldCount THEN Raised("ValueError")
    ELSE PointOfValues(data, f,
                       IF is_stop_of(Str(f[1]), f[2]) THEN int(f[1]) ELSE Str(f[1]),
                       IF f[7] # <<>> THEN int(f[7]) ELSE Str(f[7]),
                       int(f[5]), int(f[6]))

\* Point.__init__(data)
Point(data) == PointOfFields(data, split(data, "|"))

----------------------------------------------------------------------------
(* base.py: Response; api_departure.py: Departure, DepartureResponse *)

TransportationType ==
    {"Bus", "Tram", "Train", "Ferry", "CityBus", "PlusBus", "ClockBus", "Cableway",
     "IntercityBus", "SuburbanRailway", "HailedSharedTaxi", "RapidTransit", "Footpath",
     "MobilityStairsUp", "MobilityStairsDown", "MobilityRampUp", "MobilityRampDown"}

Punctuality == {"InTime", "Delayed"}

\* Response.__init__: the status of a decoded payload (data is a JSON value:
\* [json |-> "object", obj |-> <record>] or another kind of JSON value)
ResponseStatus(data) ==
    IF data.json # "object" THEN Raised("ValueError")
    ELSE IF ~Has(data.obj, "Status") THEN Raised("KeyError")
    ELSE IF ~Has(data.obj.Status, "Code") THEN Raised("KeyError")
    ELSE [kind |-> "bool", val |-> data.obj.Status.Code = "Ok"]

\* the Departure whose times have been parsed
DepartureOfTimes(data, scheduled, real_time) ==
    IF IsRaised(scheduled) THEN scheduled
    ELSE IF IsRaised(real_time) THEN real_time
    ELSE [kind |-> "Departure", id |-> data.Id, vehicle |-> data.Mot,
          line_name |-> data.LineName, direction |-> data.Direction,
          state |-> IF Has(data, "State") THEN data.State ELSE "InTime",
          scheduled |-> scheduled, real_time |-> real_time]

\* Departure.__init__(data)
Departure(data) ==
    IF ~Has(data, "Id") \/ ~Has(data, "Mot") THEN Raised("KeyError")
    ELSE IF data.Mot \notin TransportationType THEN Raised("ValueError")
    ELSE IF ~Has(data, "LineName") \/ ~Has(data, "Direction") THEN Raised("KeyError")
    ELSE IF Has(data, "State") /\ data.State \notin Punctuality THEN Raised("ValueError")
    ELSE IF ~Has(data, "ScheduledTime") THEN Raised("KeyError")
    ELSE DepartureOfTimes(data, _parse_time(data.ScheduledTime),
                          IF Has(data, "RealTime") THEN _parse_time(data.RealTime)
                          ELSE None)

\* Departure.delay, in seconds
delay(self) ==
    IF self.real_time.kind = "datetime"
    THEN (self.real_time.ms - self.scheduled.ms) \div MillisPerSecond
    ELSE 0

\* a dict is the sequence of its <<key, value>> items in insertion order

\* a faulty variant: a key already present keeps its first value
DictKeepFirst(dd, key, value) ==
    IF \E k \in 1..Len(dd) : dd[k][1] = key THEN dd
    ELSE Append(dd, <<key, value>>)

\* dd[key] = value
DictSet(dd, key, value) ==
    IF \E k \in 1..Len(dd) : dd[k][1] = key
    THEN [k \in 1..Len(dd) |-> IF dd[k][1] = key THEN <<key, value>> ELSE dd[k]]
    ELSE Append(dd, <<key, value>>)

\* list(dd.values())
DictValues(dd) == [k \in 1..Len(dd) |-> dd[k][2]]

\* lines 106-108, the loop body: dd[(dep.id, dep.scheduled)] = dep
KeepDeparture(dd, dep) ==
    IF IsRaised(dd) THEN dd
    ELSE IF IsRaised(dep) THEN dep
    ELSE [kind |-> "dict", items |-> DictSet(dd.items, <<dep.id, dep.scheduled>>, dep)]

\* the dict after the loop over records[1..n], or what Departure raised
RECURSIVE FilterDuplicates(_, _)
FilterDuplicates(records, n) ==
    IF n = 0 THEN [kind |-> "dict", items |-> <<>>]
    ELSE KeepDeparture(FilterDuplicates(records, n - 1), Departure(records[n]))

\* a faulty variant: the limit is compared with the count after deduplication
MoreOfDeduplicated(data, parameters) ==
    /\ Has(parameters, "limit")
    /\ parameters.limit = Len(FilterDuplicates(data.Departures, Len(data.Departures)).items)

\* DepartureResponse.more
more(data, parameters) ==
    Has(parameters, "limit") /\ parameters.limit = Len(data.Departures)

\* lines 100-109, with the status decoded and the loop run
DepartureResponseOf(data, parameters, status, dd) ==
    IF IsRaised(status) THEN status
    ELSE IF ~Has(data.obj, "Name") \/ ~Has(data.obj, "Place") THEN Raised("KeyError")
    ELSE IF ~Has(data.obj, "Departures") THEN Raised("KeyError")
    ELSE IF IsRaised(dd) THEN dd
    ELSE [kind |-> "DepartureResponse", status |-> status.val, ok |-> status.val,
          name |-> data.obj.Name, place |-> data.obj.Place,
          more |-> more(data.obj, parameters), departures |-> DictValues(dd.items)]

\* DepartureResponse.__init__(data, parameters)
DepartureResponse(data, parameters) ==
    DepartureResponseOf(data, parameters, ResponseStatus(data),
                        FilterDuplicates(data.obj.Departures, Len(data.obj.Departures)))

----------------------------------------------------------------------------
(* api_route.py: Vehicle, RouteStop, PartialRoute, Route, RouteResponse *)

\* Vehicle.from_data(data)
Vehicle(data) ==
    IF ~Has(data, "Type") THEN Raised("KeyError")
    ELSE IF data.Type \notin TransportationType THEN Raised("ValueError")
    ELSE [kind |-> "Vehicle", type |-> data.Type,
          direction |-> Get(data, "Direction"), name |-> Get(data, "Name"),
          changes |-> IF Has(data, "Changes") THEN data.Changes ELSE <<>>]

\* _parse_time(data[key]), KeyError without the key
RequiredTime(data, key) ==
    IF Has(data, key) THEN _parse_time(data[key]) ELSE Raised("KeyError")

\* _parse_time(data[key]) if key in data else None
OptionalTime(data, key) == IF Has(data, key) THEN _parse_time(data[key]) ELSE None

\* the RouteStop whose fields have been converted, in the order of the
\* keyword arguments
RouteStopOf(data, point_id, arrival_scheduled, arrival_realtime, departure_scheduled, departure_realtime) ==
    IF IsRaised(point_id) THEN point_id
    ELSE IF ~Has(data, "Type") THEN Raised("KeyError")
    ELSE IF IsRaised(arrival_scheduled) THEN arrival_scheduled
    ELSE IF Has(data, "ArrivalState") /\ data.ArrivalState \notin Punctuality
    THEN Raised("ValueError")
    ELSE IF IsRaised(arrival_realtime) THEN arrival_realtime
    ELSE IF IsRaised(departure_scheduled) THEN departure_scheduled
    ELSE IF Has(data, "DepartureState") /\ data.DepartureState \notin Punctuality
    THEN Raised("ValueError")
    ELSE IF IsRaised(departure_realtime) THEN departure_realtime
    ELSE IF ~Has(data, "Latitude") \/ ~Has(data, "Longitude") THEN Raised("KeyError")
    ELSE [kind |-> "RouteStop", name |-> data.Name, place |-> data.Place,
          point_id |-> point_id.val, type |-> data.Type,
          arrival_scheduled |-> arrival_scheduled,
          arrival_state |-> Get(data, "ArrivalState"),
          arrival_realtime |-> arrival_realtime,
          departure_scheduled |-> departure_scheduled,
          departure_state |-> Get(data, "DepartureState"),
          departure_realtime |-> departure_realtime,
          latitude_gk4 |-> data.Latitude, longitude_gk4 |-> data.Longitude]

\* RouteStop.from_data(data)
RouteStop(data) ==
    IF \E k \in {"Name", "Place", "DataId"} : ~Has(data, k) THEN Raised("KeyError")
    ELSE RouteStopOf(data, int(data.DataId),
                     RequiredTime(data, "ArrivalTime"),
                     OptionalTime(data, "ArrivalRealTime"),
                     RequiredTime(data, "DepartureTime"),
                     OptionalTime(data, "DepartureRealTime"))

\* RouteStop.arrival: arrival_realtime or arrival_scheduled
arrival(self) ==
    IF self.arrival_realtime.kind # "None" THEN self.arrival_realtime
    ELSE self.arrival_scheduled

\* RouteStop.departure: departure_realtime or departure_scheduled
departure(self) ==
    IF self.departure_realtime.kind # "None" THEN self.departure_realtime
    ELSE self.departure_scheduled

\* a - b on two datetimes: a timedelta
TimeDelta(a, b) == [kind |-> "timedelta", ms |-> a.ms - b.ms]

\* delta.total_seconds, the bound method, which the code does not call
total_seconds(delta) == [kind |-> "method", self |-> delta]

\* floor(num / den), den > 0
Floor(num, den) ==
    IF num >= 0 THEN num \div den ELSE 0 - ((0 - num + den - 1) \div den)

\* the integer nearest to num/den given its floor fl: a tie goes to the even
RoundFrom(num, den, fl) ==
    IF 2 * (num - fl * den) < den THEN fl
    ELSE IF 2 * (num - fl * den) > den THEN fl + 1
    ELSE IF fl % 2 = 0 THEN fl ELSE fl + 1

\* round(num / den)
round(num, den) == RoundFrom(num, den, Floor(num, den))

\* round(x / 60): a method object has no division
RoundedQuotient(x, den) ==
    IF x.kind = "method" THEN Raised("TypeError")
    ELSE PyInt(round(x.seconds, den))

\* line 190: round((stops[-1].arrival - stops[0].departure).total_seconds / 60)
InferDuration(stops) ==
    RoundedQuotient(
        total_seconds(TimeDelta(arrival(stops[Len(stops)]), departure(stops[1]))),
        SecondsPerMinute)

\* lines 181-191, with the fields decoded
PartialRouteOf(data, duration, vehicle, stops, next, prev) ==
    IF IsRaised(vehicle) THEN vehicle
    ELSE IF IsRaised(stops) THEN stops
    ELSE IF IsRaised(next) THEN next
    ELSE IF IsRaised(prev) THEN prev
    ELSE IF IsRaised(duration) THEN duration
    ELSE [kind |-> "PartialRoute", id |-> Get(data, "PartialRouteId"),
          duration |-> duration, vehicle |-> vehicle, stops |-> stops.items,
          next_departures |-> next.items, previous_departures |-> prev.items]

\* lines 189-190: the duration of the source, or the inferred one
DurationOf(data, stops) ==
    IF Has(data, "Duration") THEN PyInt(data.Duration)
    ELSE IF ~IsRaised(stops) /\ Len(stops.items) > 0 THEN InferDuration(stops.items)
    ELSE None

\* [_parse_time(td) for td in data.get(key, [])]
TimeList(data, key) ==
    ListOrRaise([k \in 1..Len(IF Has(data, key) THEN data[key] ELSE <<>>) |->
                    _parse_time(data[key][k])])

\* [RouteStop.from_data(d) for d in data.get("RegularStops", [])]
StopList(data) ==
    ListOrRaise([k \in 1..Len(IF Has(data, "RegularStops") THEN data.RegularStops
                              ELSE <<>>) |->
                    RouteStop(data.RegularStops[k])])

\* PartialRoute.from_data(data), the stops decoded
PartialRouteWithStops(data, stops) ==
    PartialRouteOf(data, DurationOf(data, stops),
                   IF Has(data, "Mot") THEN Vehicle(data.Mot) ELSE Raised("KeyError"),
                   stops, TimeList(data, "NextDepartureTimes"),
                   TimeList(data, "PreviousDepartureTimes"))

\* PartialRoute.from_data(data)
PartialRoute(data) == PartialRouteWithStops(data, StopList(data))

\* lines 205-208, with the lists decoded
RouteOf(data, partial_routes, vehicles) ==
    IF IsRaised(partial_routes) THEN partial_routes
    ELSE IF IsRaised(vehicles) THEN vehicles
    ELSE [kind |-> "Route", duration |-> data.Duration,
          interchanges |-> data.Interchanges,
          partial_routes |-> partial_routes.items, vehicles |-> vehicles.items]

\* Route.__init__(data)
Route(data) ==
    IF ~Has(data, "Duration") \/ ~Has(data, "Interchanges") THEN Raised("KeyError")
    ELSE IF ~Has(data, "PartialRoutes") THEN Raised("KeyError")
    ELSE RouteOf(data,
                 ListOrRaise([k \in 1..Len(data.PartialRoutes) |->
                                 PartialRoute(data.PartialRoutes[k])]),
                 IF Has(data, "MotChain")
                 THEN ListOrRaise([k \in 1..Len(data.MotChain) |->
                                      Vehicle(data.MotChain[k])])
                 ELSE Raised("KeyError"))

\* [Route(d) for d in data["Routes"]]
RouteList(obj) ==
    IF ~Has(obj, "Routes") THEN Raised("KeyError")
    ELSE ListOrRaise([k \in 1..Len(obj.Routes) |-> Route(obj.Routes[k])])

\* a RouteResponse holding routes, or what decoding them raised
RouteResponseWith(ok, routes) ==
    IF IsRaised(routes) THEN routes
    ELSE [kind |-> "RouteResponse", status |-> ok, ok |-> ok, routes |-> routes.items]

\* lines 215-219 done without the test of self.ok
RoutesWhateverStatus(data, status) ==
    IF IsRaised(status) THEN status
    ELSE RouteResponseWith(status.val, RouteList(data.obj))

\* a faulty variant: the routes are decoded whatever the status
RouteResponseIgnoringStatus(data, parameters) ==
    RoutesWhateverStatus(data, ResponseStatus(data))

\* lines 215-219, with the status decoded
RouteResponseOf(data, status) ==
    IF IsRaised(status) THEN status
    ELSE IF status.val THEN RouteResponseWith(TRUE, RouteList(data.obj))
    ELSE RouteResponseWith(FALSE, [kind |-> "list", items |-> <<>>])

\* RouteResponse.__init__(data, parameters)
RouteResponse(data, parameters) == RouteResponseOf(data, ResponseStatus(data))

----------------------------------------------------------------------------
(* api_stops.py: PointResponse *)

\* the list object the class attribute `points = []` is bound to, made once
\* when the class is defined: the first object of the heap
ClassPointsRef == 1

\* a faulty variant: the PointStatus sentinel is not looked at
PointResponseOkByStatusOnly(status, data) == [kind |-> "bool", val |-> status]

\* line 50: self.status and data["PointStatus"] != "NotIdentified"
PointResponseOk(status, data) ==
    IF ~status THEN [kind |-> "bool", val |-> FALSE]
    ELSE IF ~Has(data, "PointStatus") THEN Raised("KeyError")
    ELSE [kind |-> "bool", val |-> data.PointStatus # "NotIdentified"]

\* [Point(p) for p in data["Points"]]
PointList(obj) ==
    IF ~Has(obj, "Points") THEN Raised("KeyError")
    ELSE ListOrRaise([k \in 1..Len(obj.Points) |-> Point(obj.Points[k])])

\* lines 51-52: `points` becomes an instance attribute, bound to a new list,
\* only when ok (own); otherwise the object has no such attribute
PointResponseWith(status, ok, points) ==
    IF IsRaised(ok) THEN ok
    ELSE IF ~ok.val
    THEN [kind |-> "PointResponse", status |-> status, ok |-> FALSE, own |-> FALSE,
          items |-> <<>>]
    ELSE IF IsRaised(points) THEN points
    ELSE [kind |-> "PointResponse", status |-> status, ok |-> TRUE, own |-> TRUE,
          items |-> points.items]

\* lines 49-52, with the status decoded
PointResponseOf(data, status) ==
    IF IsRaised(status) THEN status
    ELSE PointResponseWith(status.val, PointResponseOk(status.val, data.obj),
                           PointList(data.obj))

\* PointResponse.__init__(data, parameters)
PointResponse(data, parameters) == PointResponseOf(data, ResponseStatus(data))

----------------------------------------------------------------------------
(* base.py: _do_request *)

HTTP_OK == 200

\* a faulty variant: the status found in the body is dropped
RequestFailureWithoutStatus(reply) ==
    IF reply.body.json \notin {"invalid", "object"} THEN Raised("TypeError")
    ELSE Raised("RuntimeError")

\* lines 24-31: what _do_request raises for a reply whose status is not 200
RequestFailure(reply) ==
    IF reply.body.json = "invalid" THEN Raised("RuntimeError")
    ELSE IF reply.body.json # "object" THEN Raised("TypeError")
    ELSE IF ~Has(reply.body.obj, "Status") THEN Raised("RuntimeError")
    ELSE IF ~Has(reply.body.obj.Status, "Code") \/ ~Has(reply.body.obj.Status, "Message")
    THEN Raised("RuntimeError")
    ELSE [kind |-> "raised", exc |-> "RuntimeError",
          code |-> reply.body.obj.Status.Code,
          message |-> reply.body.obj.Status.Message]

\* cls(r.json(), data)
Construct(cls, body, data) ==
    IF body.json = "invalid" THEN Raised("JSONDecodeError")
    ELSE IF cls = "DepartureResponse" THEN DepartureResponse(body, data)
    ELSE IF cls = "RouteResponse" THEN RouteResponse(body, data)
    ELSE IF cls = "PointResponse" THEN PointResponse(body, data)
    ELSE Raised("ValueError")

\* _do_request(endpoint, data, cls), the transport answering with reply
_do_request(endpoint, data, cls, reply) ==
    [sent |-> <<[endpoint |-> endpoint, json |-> data]>>,
     ret |-> IF reply.status_code # HTTP_OK THEN RequestFailure(reply)
             ELSE Construct(cls, reply.body, data)]

----------------------------------------------------------------------------
(* api_departure.py: get_departures; api_route.py: find_routes;            *)
(* api_stops.py: find_points                                               *)

EnumMember(v) == [kind |-> "TransportationType", value |-> v]

JsonString(v) == [kind |-> "str", value |-> v]

\* the loop that replaces enumeration members by their values
VehicleValues(vehicle) ==
    [k \in 1..Len(vehicle) |->
        IF vehicle[k].kind = "TransportationType" THEN JsonString(vehicle[k].value)
        ELSE vehicle[k]]

\* kwargs["time"] = kwargs["time"].isoformat() for a datetime
WithIsoTime(kwargs) ==
    IF Has(kwargs, "time") /\ kwargs.time.kind = "datetime"
    THEN [kwargs EXCEPT !.time = [kind |-> "isoformat", ms |-> kwargs.time.ms]]
    ELSE kwargs

Without(d, keys) == [k \in DOMAIN d \ keys |-> d[k]]

\* a Point argument replaced by its bare identifier
IdOf(stop) == IF stop.kind = "Point" THEN stop.id ELSE stop

\* kwargs["mot"] = kwargs["vehicle"]; del kwargs["vehicle"]
WithMot(kwargs) ==
    IF Has(kwargs, "vehicle")
    THEN Without(kwargs, {"vehicle"}) @@ [mot |-> VehicleValues(kwargs.vehicle)]
    ELSE kwargs

\* get_departures(stopid, **kwargs)
get_departures(stopid, kwargs, reply) ==
    IF stopid.kind = "Point" /\ ~is_stop(stopid)
    THEN [sent |-> <<>>, ret |-> Raised("TypeError")]
    ELSE _do_request("/dm", [stopid |-> IdOf(stopid)] @@ WithIsoTime(WithMot(kwargs)),
                     "DepartureResponse", reply)

\* settings = {"maxChanges": ...}, and settings["mot"] with vehicles
StandardSettings(kwargs) ==
    [maxChanges |-> IF Has(kwargs, "max_changes") THEN kwargs.max_changes
                    ELSE JsonString("Unlimited")]
    @@ (IF Has(kwargs, "vehicle") THEN [mot |-> VehicleValues(kwargs.vehicle)] ELSE <<>>)

\* find_routes(start, destination, **kwargs)
find_routes(start, destination, kwargs, reply) ==
    _do_request("/tr/trips",
                [origin |-> IdOf(start), destination |-> IdOf(destination),
                 standardSettings |-> StandardSettings(kwargs)]
                @@ WithIsoTime(Without(kwargs, {"max_changes", "vehicle"})),
                "RouteResponse", reply)

\* to_gk4(lon, lat) rounded: the projection is pyproj's; the model knows the
\* one location it uses
RoundedGk4(location) == [right |-> 4623295, up |-> 5658653]

\* find_points(query, location, limit)
find_points(query, location, limit, reply) ==
    _do_request("tr/pointfinder",
                (IF location.kind # "None"
                 THEN [query |-> [kind |-> "coord", gk4 |-> RoundedGk4(location)],
                       assignedstops |-> FALSE]
                 ELSE [query |-> query])
                @@ [limit |-> limit, stopsOnly |-> FALSE, regionalOnly |-> FALSE,
                    stopShortcuts |-> FALSE],
                "PointResponse", reply)

----------------------------------------------------------------------------
(* Inputs of the time decoder *)

TimestampValues == {0, 999, 60000, 1644164}
OffsetMinuteValues == {0, 1, 30}
Signs == {"+", "-"}

TwoDigits(n) == IF n < Len(DigitChars) THEN <<"0">> \o str(n) ELSE str(n)

\* <integer-milliseconds><sign><4-digit-offset>
Embedded(ms, sign, hh, mm) == str(ms) \o <<sign>> \o TwoDigits(hh) \o TwoDigits(mm)

\* the documented format: /Date(<ms><sign><HHMM>)/
EncodeTime(ms, sign, hh, mm) ==
    <<"/">> \o DatePrefix \o Embedded(ms, sign, hh, mm) \o <<")", "/">>

TimeCases ==
    {[ms |-> ms, sign |-> sg, hh |-> hh, mm |-> mm, slashes |-> sl] :
        ms \in TimestampValues, sg \in Signs, hh \in 0..MaxOffsetHours,
        mm \in OffsetMinuteValues, sl \in BOOLEAN}

TimeCaseString(c) ==
    IF c.slashes THEN EncodeTime(c.ms, c.sign, c.hh, c.mm)
    ELSE DatePrefix \o Embedded(c.ms, c.sign, c.hh, c.mm) \o <<")">>

\* strings in which the pattern is absent
BrokenTimeStrings ==
    {<<>>, <<"D", "a", "t", "e", "(", ")">>, <<"6", "0", "-", "0", "0", "0", "0">>,
     <<"D", "a", "t", "e", "(", "6", "0", "-", "0", "0", "0", ")">>}

----------------------------------------------------------------------------
(* Inputs of the point parser *)

IdFields == {<<"8", "0">>, <<"7">>, <<"a", "8">>, <<"s", ":", "1">>, <<>>}
TypeFields == {<<>>, <<"c">>, <<"a">>}
CoordFields == {<<"4", "6">>, <<"5", "x">>}
DistanceFields == {<<>>, <<"1", "2">>}
ShortcutFields == {<<>>, <<"B", "G">>}

PointFields ==
    {<<id, type, <<"D">>, <<"S", "t">>, right, up, dist, <<"0">>, sc>> :
        id \in IdFields, type \in TypeFields, right \in CoordFields,
        up \in {<<"5", "6">>}, dist \in DistanceFields, sc \in ShortcutFields}
    \cup
    {<<id, <<>>, <<"D">>, <<"S", "t">>, <<"4", "6">>, up, <<>>, <<"0">>, <<>>>> :
        id \in IdFields, up \in CoordFields}

\* records with a field too few or too many
MiscountedFields ==
    {SubSeq(f, 1, PointFieldCount - 1) : f \in PointFields}
    \cup {f \o <<(<<>>)>> : f \in PointFields}

----------------------------------------------------------------------------
(* Inputs of the departure parser *)

Json(obj) == [json |-> "object", obj |-> obj]

StatusCodes == {"Ok", "ServiceError"}

\* T60 and T60b are two spellings of one instant
T0 == EncodeTime(0, "-", 0, 0)
T60 == EncodeTime(60000, "-", 0, 0)
T60b == EncodeTime(120000, "-", 0, 1)
TPlus == EncodeTime(60000, "+", 1, 0)

DepartureData(id, line, time) ==
    [Id |-> id, Mot |-> "Bus", LineName |-> line, Direction |-> "Johannstadt",
     ScheduledTime |-> time]

DepartureRecords ==
    {DepartureData("1", "62", T60), DepartureData("1", "3", T60),
     DepartureData("1", "11", T60b), DepartureData("2", "62", T60),
     DepartureData("1", "62", T0),
     [DepartureData("2", "3", T0) EXCEPT !.Mot = "Tram"] @@ [RealTime |-> T60],
     DepartureData("1", "62", TPlus)}

SeqsUpTo(S, n) == UNION {[1..k -> S] : k \in 0..n}

DepartureParameters ==
    {[stopid |-> PyInt(33000028)]}
    \cup {[stopid |-> PyInt(33000028), limit |-> l] : l \in 0..MaxLimit}

----------------------------------------------------------------------------
(* Inputs of the route parser *)

T120 == EncodeTime(120000, "-", 0, 0)
T90 == EncodeTime(90000, "-", 0, 0)

StopBase(dep) ==
    [Name |-> "St.-Benno-Gymnasium", Place |-> "Dresden", DataId |-> <<"8", "0">>,
     Type |-> "Stop", ArrivalTime |-> T60, DepartureTime |-> dep,
     Latitude |-> 5658653, Longitude |-> 4623295]

StopData ==
    {StopBase(dep) @@ art @@ drt :
        dep \in {T0, T60},
        art \in {<<>>, [ArrivalRealTime |-> T120], [ArrivalRealTime |-> T90]},
        drt \in {<<>>, [DepartureRealTime |-> T0]}}

BusData == [Type |-> "Bus", Name |-> "62", Direction |-> "Johannstadt",
            Changes |-> <<"13599">>]

MotData == {BusData, [Type |-> "Footpath"], [Type |-> "Hovercraft", Name |-> "H"]}

DurationData == {<<>>, [Duration |-> 0], [Duration |-> 7]}

PartialRouteData ==
    {dur @@ mot @@ stops :
        dur \in DurationData,
        mot \in {<<>>} \cup {[Mot |-> m] : m \in MotData},
        stops \in {<<>>} \cup {[RegularStops |-> st] : st \in SeqsUpTo(StopData, MaxStops)}}

\* the partial routes of the route payloads: one with its duration, one with
\* neither duration nor stops, one whose duration has to be inferred
RoutePartials ==
    {[Duration |-> 7, Mot |-> BusData, RegularStops |-> <<StopBase(T0)>>],
     [Mot |-> [Type |-> "Footpath"]],
     [Mot |-> BusData, RegularStops |-> <<StopBase(T0)>>]}

RouteData ==
    {[Duration |-> 12, Interchanges |-> 1, PartialRoutes |-> ps, MotChain |-> <<BusData>>] :
        ps \in SeqsUpTo(RoutePartials, 2)}
    \cup {[Duration |-> 12, PartialRoutes |-> <<>>, MotChain |-> <<>>]}

RouteResponseData ==
    {[Status |-> [Code |-> code]] @@ routes :
        code \in StatusCodes,
        routes \in {<<>>} \cup {[Routes |-> rs] : rs \in SeqsUpTo(RouteData, MaxRoutes)}}

----------------------------------------------------------------------------
(* Inputs of the request envelope *)

HttpStatusCodes == {200, 204, 404, 500}

SuccessStatusCodes == 200..299

StatusObjects ==
    {[Code |-> "ServiceError", Message |-> "bad stop"],
     [Code |-> "Ok", Message |-> "fine"],
     [Code |-> "ServiceError"], [Message |-> "bad stop"]}

DeparturePayload ==
    [Status |-> [Code |-> "Ok"], Name |-> "Hauptbahnhof", Place |-> "Dresden",
     Departures |-> <<DepartureData("1", "62", T60), DepartureData("1", "3", T60)>>]

RoutePayload ==
    [Status |-> [Code |-> "Ok"],
     Routes |-> <<[Duration |-> 12, Interchanges |-> 0, MotChain |-> <<BusData>>,
                   PartialRoutes |-> <<[Duration |-> 7, Mot |-> BusData]>>]>>]

Bodies ==
    {[json |-> "invalid"], [json |-> "array"]}
    \cup {Json([Status |-> st]) : st \in StatusObjects}
    \cup {Json(<<>>), Json(DeparturePayload), Json(RoutePayload)}

Replies == {[status_code |-> c, body |-> b] : c \in HttpStatusCodes, b \in Bodies}

PointData(id, type) ==
    join(<<id, type, <<"D">>, <<"S", "t">>, <<"4", "6">>, <<"5", "6">>, <<>>, <<"0">>,
           <<>>>>, "|")

StopPoint == Point(PointData(<<"8", "0">>, <<>>))
AddressPoint == Point(PointData(<<"a", "8">>, <<"a">>))
CoordPoint == Point(PointData(<<"c", ":", "4", "6">>, <<"c">>))

\* what a caller passes for a stop: an identifier or a Point
StopArguments == {PyInt(33000028), StopPoint, AddressPoint, CoordPoint}

VehicleArgument == <<EnumMember("Bus"), JsonString("Tram")>>

DepartureKwargs ==
    {lim @@ veh @@ tim :
        lim \in {<<>>, [limit |-> 2]},
        veh \in {<<>>, [vehicle |-> VehicleArgument]},
        tim \in {<<>>, [time |-> [kind |-> "datetime", ms |-> 60000]]}}

RouteKwargs ==
    {mc @@ veh :
        mc \in {<<>>, [max_changes |-> PyInt(1)]},
        veh \in {<<>>, [vehicle |-> VehicleArgument]}}

----------------------------------------------------------------------------
(* Inputs of the point lookup *)

PointsPayloads ==
    {[Status |-> [Code |-> code]] @@ ps @@ pts :
        code \in StatusCodes,
        ps \in {<<>>, [PointStatus |-> "Identified"], [PointStatus |-> "NotIdentified"]},
        pts \in {<<>>, [Points |-> <<>>],
                 [Points |-> <<PointData(<<"8", "0">>, <<>>)>>],
                 [Points |-> <<PointData(<<"a", "8">>, <<>>)>>]}}

LookupReplies ==
    {[status_code |-> HTTP_OK, body |-> Json(p)] : p \in PointsPayloads}
    \cup {[status_code |-> 404, body |-> Json([Status |-> st])] : st \in StatusObjects}

----------------------------------------------------------------------------
(* State machine *)

NoCall == [op |-> "none"]

Init ==
    /\ call = NoCall
    /\ ret = None
    /\ sent = <<>>
    /\ responses = <<>>
    /\ heap = <<>>

ParseTime ==
    /\ call.op = "none"
    /\ \E c \in TimeCases :
        /\ call' = [op |-> "_parse_time", wellFormed |-> TRUE, case |-> c,
                    time |-> TimeCaseString(c)]
        /\ ret' = _parse_time(TimeCaseString(c))
    /\ UNCHANGED <<sent, responses, heap>>

ParseBrokenTime ==
    /\ call.op = "none"
    /\ \E s \in BrokenTimeStrings :
        /\ call' = [op |-> "_parse_time", wellFormed |-> FALSE, time |-> s]
        /\ ret' = _parse_time(s)
    /\ UNCHANGED <<sent, responses, heap>>

NextTime == ParseTime \/ ParseBrokenTime

SpecTime == Init /\ [][NextTime]_vars

PointInit ==
    /\ call.op = "none"
    /\ \E f \in PointFields \cup MiscountedFields :
        /\ call' = [op |-> "Point", fields |-> f, data |-> join(f, "|")]
        /\ ret' = Point(join(f, "|"))
    /\ UNCHANGED <<sent, responses, heap>>

NextPoint == PointInit

SpecPoint == Init /\ [][NextPoint]_vars

DepartureResponseInit ==
    /\ call.op = "none"
    /\ \E code \in StatusCodes, recs \in SeqsUpTo(DepartureRecords, MaxDepartures),
          parameters \in DepartureParameters :
        LET data == Json([Status |-> [Code |-> code], Name |-> "Hauptbahnhof",
                          Place |-> "Dresden", Departures |-> recs])
        IN  /\ call' = [op |-> "DepartureResponse", data |-> data,
                        parameters |-> parameters]
            /\ ret' = DepartureResponse(data, parameters)
    /\ UNCHANGED <<sent, responses, heap>>

NextDeparture == DepartureResponseInit

SpecDeparture == Init /\ [][NextDeparture]_vars

PartialRouteFromData ==
    /\ call.op = "none"
    /\ \E data \in PartialRouteData :
        /\ call' = [op |-> "PartialRoute.from_data", data |-> data]
        /\ ret' = PartialRoute(data)
    /\ UNCHANGED <<sent, responses, heap>>

RouteResponseInit ==
    /\ call.op = "none"
    /\ \E obj \in RouteResponseData :
        /\ call' = [op |-> "RouteResponse", data |-> Json(obj),
                    parameters |-> [origin |-> PyInt(33000028), destination |-> PyInt(33000016)]]
        /\ ret' = RouteResponse(Json(obj), [origin |-> PyInt(33000028), destination |-> PyInt(33000016)])
    /\ UNCHANGED <<sent, responses, heap>>

NextRoute == PartialRouteFromData \/ RouteResponseInit

SpecRoute == Init /\ [][NextRoute]_vars

\* the call c has sent and returned (or raised) what r says
Answered(c, r) ==
    /\ call' = c
    /\ ret' = r.ret
    /\ sent' = r.sent

GetDepartures ==
    /\ call.op = "none"
    /\ \E stopid \in StopArguments, kwargs \in DepartureKwargs, reply \in Replies :
        Answered([op |-> "get_departures", stops |-> <<stopid>>, kwargs |-> kwargs,
                  reply |-> reply],
                 get_departures(stopid, kwargs, reply))
    /\ UNCHANGED <<responses, heap>>

FindRoutes ==
    /\ call.op = "none"
    /\ \E start \in StopArguments, destination \in StopArguments,
          kwargs \in RouteKwargs, reply \in Replies :
        Answered([op |-> "find_routes", stops |-> <<start, destination>>,
                  kwargs |-> kwargs, reply |-> reply],
                 find_routes(start, destination, kwargs, reply))
    /\ UNCHANGED <<responses, heap>>

NextRequest == GetDepartures \/ FindRoutes

SpecRequest == Init /\ [][NextRequest]_vars

\* r.points of the i-th response the caller holds
PointsOf(i) == heap[responses[i].points]

\* the interpreter after `class PointResponse` has been executed
InitLookup ==
    /\ call = NoCall
    /\ ret = None
    /\ sent = <<>>
    /\ responses = <<>>
    /\ heap = <<(<<>>)>>

\* the caller keeps the response r: its points are the new list object when
\* the instance has the attribute, the list of the class otherwise
Kept(r) ==
    IF r.kind # "PointResponse" THEN UNCHANGED <<responses, heap>>
    ELSE IF r.own
    THEN /\ heap' = Append(heap, r.items)
         /\ responses' = Append(responses, [status |-> r.status, ok |-> r.ok,
                                            points |-> Len(heap) + 1])
    ELSE /\ heap' = heap
         /\ responses' = Append(responses, [status |-> r.status, ok |-> r.ok,
                                            points |-> ClassPointsRef])

\* the call c has sent and returned (or raised) what r says, and the caller
\* keeps what it returned
AnsweredAndKept(c, r) ==
    /\ Answered(c, r)
    /\ Kept(r.ret)

\* find_points(query)
FindPoints ==
    /\ Len(responses) < MaxResponses
    /\ \E reply \in LookupReplies :
        AnsweredAndKept([op |-> "find_points", reply |-> reply],
                        find_points(JsonString("Hauptbahnhof"), None, None, reply))

\* the caller's responses[i].points.append(p)
AppendPoint ==
    /\ \E i \in 1..Len(responses) :
        /\ Len(PointsOf(i)) < MaxAppends
        /\ heap' = [heap EXCEPT ![responses[i].points] = Append(@, AddressPoint)]
        /\ call' = [op |-> "append", index |-> i]
    /\ ret' = None
    /\ UNCHANGED <<sent, responses>>

NextLookup == FindPoints \/ AppendPoint

SpecLookup == InitLookup /\ [][NextLookup]_vars

----------------------------------------------------------------------------
(* C3 *)

SignOf(sg) == IF sg = "-" THEN 0 - 1 ELSE 1

\* C3: every string embedding <ms><sign><HHMM> decodes, and to the instant
\* ms/1000 + sign*(HH*60+MM)*60 seconds.
C3_ParseTimeDecodesOffset ==
    (call.op = "_parse_time" /\ call.wellFormed) =>
        /\ ret.kind = "datetime"
        /\ ret.ms = call.case.ms
                    + SignOf(call.case.sign) * (call.case.hh * 60 + call.case.mm) * 60 * 1000

----------------------------------------------------------------------------
(* C4 *)

\* C4: a 9-field record with integer easting and northing always gives a
\* Point; it is a stop exactly when the type is empty and the identifier is
\* numeric; the identifier is an integer exactly when it is a stop.
C4_PointStopIffNumericId ==
    (/\ call.op = "Point"
     /\ Len(call.fields) = 9
     /\ isnumeric(call.fields[5])
     /\ isnumeric(call.fields[6])) =>
        /\ ret.kind = "Point"
        /\ is_stop(ret) <=> (call.fields[2] = <<>> /\ isnumeric(call.fields[1]))
        /\ (ret.id.kind = "int") <=> is_stop(ret)

----------------------------------------------------------------------------
(* C1, C2 *)

\* the (id, scheduled) key of a departure record of the payload
RecordKey(rec) == <<rec.Id, _parse_time(rec.ScheduledTime)>>

RECURSIVE RecordKeys(_)
RecordKeys(recs) ==
    IF recs = <<>> THEN <<>> ELSE <<RecordKey(recs[1])>> \o RecordKeys(Tail(recs))

RECURSIVE DepartureKeys(_)
DepartureKeys(deps) ==
    IF deps = <<>> THEN <<>>
    ELSE <<(<<deps[1].id, deps[1].scheduled>>)>> \o DepartureKeys(Tail(deps))

\* C1: one Departure per distinct (id, scheduled) key, built from the last
\* record with that key; records whose key occurs once keep their order; the
\* list has as many entries as there are distinct keys, which is N-(M-1) when
\* M of the N records share one key and the others occur once.
C1_DeduplicationLastWins ==
    (call.op = "DepartureResponse" /\ ret.kind = "DepartureResponse") =>
        LET recs == call.data.obj.Departures
            deps == ret.departures
            rkey == RecordKeys(recs)
            dkey == DepartureKeys(deps)
            Same(i) == {k \in 1..Len(recs) : rkey[k] = rkey[i]}
            Last(i) == CHOOSE k \in Same(i) : \A n \in Same(i) : n <= k
            At(i) == {j \in 1..Len(deps) : dkey[j] = rkey[i]}
            Pos(i) == CHOOSE j \in At(i) : TRUE
            Once == {i \in 1..Len(recs) : Same(i) = {i}}
        IN  /\ \A i \in 1..Len(recs) :
                /\ Cardinality(At(i)) = 1
                /\ deps[Pos(i)] = Departure(recs[Last(i)])
            /\ \A j \in 1..Len(deps) : \E i \in 1..Len(recs) : dkey[j] = rkey[i]
            /\ \A i1, i2 \in Once : i1 < i2 => Pos(i1) < Pos(i2)
            /\ Len(deps) = Cardinality({rkey[i] : i \in 1..Len(recs)})
            /\ \A i \in 1..Len(recs) :
                (\A k \in 1..Len(recs) : k \in Same(i) \/ k \in Once) =>
                    Len(deps) = Len(recs) - (Cardinality(Same(i)) - 1)

\* a response in which three records collapsed to two departures, the
\* overwritten key ahead of a key that occurs once
C1_Witness ==
    /\ call.op = "DepartureResponse"
    /\ ret.kind = "DepartureResponse"
    /\ Len(call.data.obj.Departures) = 3
    /\ Len(ret.departures) = 2
    /\ RecordKey(call.data.obj.Departures[1]) = RecordKey(call.data.obj.Departures[3])
    /\ call.data.obj.Departures[1].LineName # call.data.obj.Departures[3].LineName
    /\ ret.departures[1].line_name = call.data.obj.Departures[3].LineName

\* C2 as stated: more iff a limit was requested and the length of the
\* departures list equals it.
C2_MoreIffLimitEqualsListLength ==
    (call.op = "DepartureResponse" /\ ret.kind = "DepartureResponse") =>
        (ret.more <=> (/\ Has(call.parameters, "limit")
                       /\ call.parameters.limit = Len(ret.departures)))

\* C2 amended: more iff a limit was requested and the number of departure
\* records in the payload, before deduplication, equals it.
C2_MoreIffLimitEqualsRecordCount ==
    (call.op = "DepartureResponse" /\ ret.kind = "DepartureResponse") =>
        (ret.more <=> (/\ Has(call.parameters, "limit")
                       /\ call.parameters.limit = Len(call.data.obj.Departures)))

\* a payload with duplicates whose record count equals the limit
C2_Witness ==
    /\ call.op = "DepartureResponse"
    /\ ret.kind = "DepartureResponse"
    /\ Has(call.parameters, "limit")
    /\ call.parameters.limit = Len(call.data.obj.Departures)
    /\ Len(ret.departures) < Len(call.data.obj.Departures)
    /\ ret.more

----------------------------------------------------------------------------
(* C6, C8 *)

\* C6: with the duration absent and at least one regular stop, from_data
\* succeeds with duration = round(elapsed seconds / 60) between the first
\* stop's effective departure and the last stop's effective arrival; a
\* duration that is present is taken verbatim.
C6_DurationInferredFromStops ==
    (/\ call.op = "PartialRoute.from_data"
     /\ Has(call.data, "Mot") /\ call.data.Mot.Type \in TransportationType) =>
        LET stops == IF Has(call.data, "RegularStops") THEN call.data.RegularStops ELSE <<>>
            Effective(st, real, sched) ==
                _parse_time(IF Has(st, real) THEN st[real] ELSE st[sched]).ms
            elapsed == Effective(stops[Len(stops)], "ArrivalRealTime", "ArrivalTime")
                       - Effective(stops[1], "DepartureRealTime", "DepartureTime")
        IN  /\ Has(call.data, "Duration") =>
                ret.kind = "PartialRoute" /\ ret.duration = PyInt(call.data.Duration)
            /\ (~Has(call.data, "Duration") /\ Len(stops) > 0) =>
                /\ ret.kind = "PartialRoute"
                /\ ret.duration.kind = "int"
                /\ ret.duration.val = round(elapsed, 60 * 1000)

\* C8: a status code other than "Ok" gives, without raising, ok = false and
\* routes = [], whatever Routes is; with "Ok" the routes of the response are
\* the Routes entries decoded one by one in order.
C8_FailedStatusGivesNoRoutes ==
    call.op = "RouteResponse" =>
        /\ call.data.obj.Status.Code # "Ok" =>
            ret.kind = "RouteResponse" /\ ~ret.ok /\ ret.routes = <<>>
        /\ (call.data.obj.Status.Code = "Ok" /\ ret.kind = "RouteResponse") =>
            /\ ret.ok
            /\ Len(ret.routes) = Len(call.data.obj.Routes)
            /\ \A i \in 1..Len(ret.routes) : ret.routes[i] = Route(call.data.obj.Routes[i])

\* a failed status over a payload that still carries routes
C8_Witness ==
    /\ call.op = "RouteResponse"
    /\ call.data.obj.Status.Code # "Ok"
    /\ Has(call.data.obj, "Routes")
    /\ Len(call.data.obj.Routes) = 2
    /\ ret.kind = "RouteResponse"
    /\ ret.routes = <<>>

----------------------------------------------------------------------------
(* C5, C7 *)

\* C5: a Point that is not a stop, passed as the stop of get_departures or as
\* the start or destination of find_routes, gives a TypeError and no request;
\* a Point that is a stop is sent as its bare identifier.
C5_NonStopPointRejected ==
    call.op \in {"get_departures", "find_routes"} =>
        LET pts == {k \in 1..Len(call.stops) : call.stops[k].kind = "Point"}
            Field(k) == IF call.op = "get_departures" THEN "stopid"
                        ELSE IF k = 1 THEN "origin" ELSE "destination"
        IN  /\ (\E k \in pts : ~is_stop(call.stops[k])) =>
                ret = Raised("TypeError") /\ sent = <<>>
            /\ (pts # {} /\ \A k \in pts : is_stop(call.stops[k])) =>
                /\ Len(sent) = 1
                /\ \A k \in pts : sent[1].json[Field(k)] = call.stops[k].id

\* C7: a reply whose status is not a success status never gives a response
\* object; a body carrying Status.Code and Status.Message gives an error with
\* exactly that code and message, any other body an error without them.
C7_FailedRequestRaises ==
    (/\ call.op \in {"get_departures", "find_routes"}
     /\ sent # <<>>
     /\ call.reply.status_code \notin SuccessStatusCodes) =>
        LET body == call.reply.body
            described == /\ body.json = "object"
                         /\ Has(body.obj, "Status")
                         /\ Has(body.obj.Status, "Code")
                         /\ Has(body.obj.Status, "Message")
        IN  /\ ret.kind = "raised"
            /\ described =>
                /\ ret.exc = "RuntimeError"
                /\ Has(ret, "code") /\ ret.code = body.obj.Status.Code
                /\ Has(ret, "message") /\ ret.message = body.obj.Status.Message
            /\ ~described =>
                /\ ret.exc \in {"RuntimeError", "TypeError"}
                /\ ~Has(ret, "code") /\ ~Has(ret, "message")

\* a 404 whose body carries a status and a message
C7_Witness ==
    /\ call.op = "get_departures"
    /\ call.reply.status_code = 404
    /\ call.reply.body =
        Json([Status |-> [Code |-> "ServiceError", Message |-> "bad stop"]])
    /\ ret.kind = "raised"
    /\ ret.exc = "RuntimeError"
    /\ ret.code = "ServiceError"
    /\ ret.message = "bad stop"

----------------------------------------------------------------------------
(* C9, C10 *)

\* C9: ok iff Status.Code is "Ok" and PointStatus is not "NotIdentified"; the
\* Points are decoded only when ok.
C9_NotIdentifiedIsFailure ==
    (call.op = "find_points" /\ ret.kind = "PointResponse") =>
        LET obj == call.reply.body.obj
        IN  /\ ret.ok <=> (/\ obj.Status.Code = "Ok"
                           /\ Has(obj, "PointStatus")
                           /\ obj.PointStatus # "NotIdentified")
            /\ ret.own => ret.ok
            /\ ~ret.ok => ret.items = <<>>

\* a lookup the service answered "Ok" and "NotIdentified", points included
C9_Witness ==
    /\ call.op = "find_points"
    /\ ret.kind = "PointResponse"
    /\ call.reply.body.obj.Status.Code = "Ok"
    /\ Has(call.reply.body.obj, "PointStatus")
    /\ call.reply.body.obj.PointStatus = "NotIdentified"
    /\ Has(call.reply.body.obj, "Points")
    /\ call.reply.body.obj.Points # <<>>
    /\ ~ret.ok

\* C10: the points lists of two responses are never the same list object.
C10_NoSharedPointsList ==
    \A i, j \in 1..Len(responses) :
        i # j => responses[i].points # responses[j].points

====
